---- MODULE Spec2Model ----
(***************************************************************************)
(* S.I.L.K. agent mode (src/agent.js): runAgentMode, a plan -> two         *)
(* parallel workers -> synthesize pipeline over fetchAPIBackground, and    *)
(* the terminal status bubble.                                             *)
(*                                                                         *)
(* A JavaScript string is a sequence of tokens.  A token is a run of       *)
(* characters that the code treats as a unit: a word, a punctuation mark   *)
(* of JSON, a code-fence marker, a whitespace character.  Tokens other     *)
(* than the whitespace tokens carry no leading or trailing whitespace, no  *)
(* token other than the two fence tokens contains a backtick, and no two   *)
(* adjacent tokens of an input read as one longer literal.                 *)
(***************************************************************************)
EXTENDS Integers, Sequences, FiniteSets

(***************************************************************************)
(* Strings                                                                 *)
(***************************************************************************)
EmptyStr == <<>>

WhiteSpace == {" ", "\n"}

IsBlank(s) == \A i \in 1..Len(s) : s[i] \in WhiteSpace

\* String.prototype.trim: drop leading and trailing whitespace.
trim(s) ==
  IF IsBlank(s) THEN EmptyStr
  ELSE LET first == CHOOSE i \in 1..Len(s) :
                      /\ s[i] \notin WhiteSpace
                      /\ \A j \in 1..(i-1) : s[j] \in WhiteSpace
           last  == CHOOSE i \in 1..Len(s) :
                      /\ s[i] \notin WhiteSpace
                      /\ \A j \in (i+1)..Len(s) : s[j] \in WhiteSpace
       IN SubSeq(s, first, last)

\* s.replace(/tok/g, ''): every occurrence of the token removed.
RemoveAll(s, tok) == SelectSeq(s, LAMBDA c : c # tok)

\* The code-fence marker (three backticks) and the marker followed by json.
Fence     == "[fence]"
FenceJson == "[fence]json"

\* line 62: .replace(/[fence]json/g, '').replace(/[fence]/g, '').trim()
cleanJson(orchestratorResponse) ==
  trim(RemoveAll(RemoveAll(orchestratorResponse, FenceJson), Fence))

(***************************************************************************)
(* JavaScript values produced by JSON.parse.  t is the type; s is the text *)
(* of a scalar (the content of a string, the literal of a number or a      *)
(* boolean); m holds the members of an object (a function on keys) or the  *)
(* elements of an array (a sequence).                                      *)
(***************************************************************************)
Undefined == [t |-> "undefined", s |-> EmptyStr, m |-> <<>>]
JNull     == [t |-> "null",      s |-> EmptyStr, m |-> <<>>]
JBool(l)  == [t |-> "bool",      s |-> <<l>>,    m |-> <<>>]
JNum(l)   == [t |-> "num",       s |-> <<l>>,    m |-> <<>>]
JStr(s)   == [t |-> "str",       s |-> s,        m |-> <<>>]
JArr(es)  == [t |-> "arr",       s |-> EmptyStr, m |-> es]
JObj(f)   == [t |-> "obj",       s |-> EmptyStr, m |-> f]

NumberTokens == {"0", "5"}

NoParse == [ok |-> FALSE, val |-> Undefined, next |-> 0]

\* Index of the first non-whitespace token at or after i (Len(s)+1 if none).
SkipWS(s, i) ==
  IF \E j \in i..Len(s) : s[j] \notin WhiteSpace
  THEN CHOOSE j \in i..Len(s) :
         /\ s[j] \notin WhiteSpace
         /\ \A k \in i..(j-1) : s[k] \in WhiteSpace
  ELSE Len(s) + 1

\* A string literal opening at the quote s[j]: no escapes in the alphabet,
\* and a raw newline inside a string literal is a syntax error.
ParseString(s, j) ==
  IF \E k \in (j+1)..Len(s) : s[k] = "\""
  THEN LET k == CHOOSE k \in (j+1)..Len(s) :
                  /\ s[k] = "\""
                  /\ \A l \in (j+1)..(k-1) : s[l] # "\""
           body == SubSeq(s, j+1, k-1)
       IN IF \E l \in 1..Len(body) : body[l] = "\n"
          THEN NoParse
          ELSE [ok |-> TRUE, val |-> JStr(body), next |-> k+1]
  ELSE NoParse

\* Object member k: v added; a repeated key keeps the last value.
PutMember(f, k, v) ==
  [x \in DOMAIN f \cup {k} |-> IF x = k THEN v ELSE f[x]]

RECURSIVE ParseValue(_, _), ParseElements(_, _, _), ParseMembers(_, _, _)

\* JSON value starting at or after position i: [ok, val, next].
ParseValue(s, i) ==
  LET j == SkipWS(s, i) IN
  IF j > Len(s) THEN NoParse
  ELSE IF s[j] = "null" THEN [ok |-> TRUE, val |-> JNull, next |-> j+1]
  ELSE IF s[j] \in {"true", "false"}
       THEN [ok |-> TRUE, val |-> JBool(s[j]), next |-> j+1]
  ELSE IF s[j] \in NumberTokens
       THEN [ok |-> TRUE, val |-> JNum(s[j]), next |-> j+1]
  ELSE IF s[j] = "\"" THEN ParseString(s, j)
  ELSE IF s[j] = "["
       THEN LET k == SkipWS(s, j+1) IN
            IF k <= Len(s) /\ s[k] = "]"
            THEN [ok |-> TRUE, val |-> JArr(<<>>), next |-> k+1]
            ELSE ParseElements(s, j+1, <<>>)
  ELSE IF s[j] = "{"
       THEN LET k == SkipWS(s, j+1) IN
            IF k <= Len(s) /\ s[k] = "}"
            THEN [ok |-> TRUE, val |-> JObj(<<>>), next |-> k+1]
            ELSE ParseMembers(s, j+1, <<>>)
  ELSE NoParse

ParseElements(s, i, acc) ==
  LET v == ParseValue(s, i) IN
  IF ~v.ok THEN NoParse
  ELSE LET k == SkipWS(s, v.next) IN
       IF k > Len(s) THEN NoParse
       ELSE IF s[k] = "," THEN ParseElements(s, k+1, Append(acc, v.val))
       ELSE IF s[k] = "]"
            THEN [ok |-> TRUE, val |-> JArr(Append(acc, v.val)), next |-> k+1]
       ELSE NoParse

ParseMembers(s, i, acc) ==
  LET j == SkipWS(s, i) IN
  IF j > Len(s) \/ s[j] # "\"" THEN NoParse
  ELSE LET key == ParseString(s, j) IN
       IF ~key.ok THEN NoParse
       ELSE LET c == SkipWS(s, key.next) IN
            IF c > Len(s) \/ s[c] # ":" THEN NoParse
            ELSE LET v == ParseValue(s, c+1) IN
                 IF ~v.ok THEN NoParse
                 ELSE LET k == SkipWS(s, v.next)
                          f == PutMember(acc, key.val.s, v.val)
                      IN IF k > Len(s) THEN NoParse
                         ELSE IF s[k] = "," THEN ParseMembers(s, k+1, f)
                         ELSE IF s[k] = "}"
                              THEN [ok |-> TRUE, val |-> JObj(f), next |-> k+1]
                         ELSE NoParse

\* JSON.parse(text): one value, then only whitespace; otherwise it throws.
JSONparse(text) ==
  LET r == ParseValue(text, 1) IN
  IF r.ok /\ SkipWS(text, r.next) > Len(text)
  THEN [ok |-> TRUE, val |-> r.val]
  ELSE [ok |-> FALSE, val |-> Undefined]

\* ToBoolean: what !x and x || y test.
Truthy(v) ==
  CASE v.t \in {"undefined", "null"} -> FALSE
    [] v.t = "bool" -> v.s = <<"true">>
    [] v.t = "num"  -> v.s # <<"0">>
    [] v.t = "str"  -> v.s # EmptyStr
    [] OTHER        -> TRUE

\* Property read v.key on a value that is not null or undefined.
GetProp(v, key) ==
  IF v.t = "obj" /\ key \in DOMAIN v.m THEN v.m[key] ELSE Undefined

RECURSIVE JoinElements(_, _)
RECURSIVE StringOf(_)

\* String(v)
StringOf(v) ==
  CASE v.t = "undefined" -> <<"undefined">>
    [] v.t = "null"      -> <<"null">>
    [] v.t = "str"       -> v.s
    [] v.t = "arr"       -> JoinElements(v.m, 1)
    [] v.t = "obj"       -> <<"[object Object]">>
    [] OTHER             -> v.s

\* Array.prototype.join(','): null and undefined elements give ''.
JoinElements(es, i) ==
  IF i > Len(es) THEN EmptyStr
  ELSE (IF es[i].t \in {"null", "undefined"} THEN EmptyStr ELSE StringOf(es[i]))
       \o (IF i < Len(es) THEN <<",">> \o JoinElements(es, i+1) ELSE EmptyStr)

(***************************************************************************)
(* fetchAPIBackground (lines 141-208)                                      *)
(***************************************************************************)
\* An image string: a data URL (mime # "") or a bare base64 payload
\* (mime = "").  NoImage is the absent (falsy) image.
NoImage == [mime |-> "", data |-> ""]
Images  == {[mime |-> "", data |-> "QUJD"], [mime |-> "image/png", data |-> "QUJD"]}

TextPart(text)         == [kind |-> "text", text |-> text, mimeType |-> "", data |-> ""]
InlineData(mime, data) == [kind |-> "inlineData", text |-> EmptyStr,
                           mimeType |-> mime, data |-> data]

\* line 149: String(newUserText || '')
safeText(newUserText) ==
  IF Truthy(newUserText) THEN StringOf(newUserText) ELSE EmptyStr

\* Mutant: the image part is pushed whether or not there is an image.
partsAlwaysImage(newUserText, imageBase64) ==
  <<TextPart(safeText(newUserText))>> \o
  (IF imageBase64.mime # ""
   THEN <<InlineData(imageBase64.mime, imageBase64.data)>>
   ELSE <<InlineData("image/jpeg", imageBase64.data)>>)

\* lines 151-158: the text part, then the image part if there is an image;
\* a data URL gives its own mime type, anything else is image/jpeg.
parts(newUserText, imageBase64) ==
  <<TextPart(safeText(newUserText))>> \o
  (IF imageBase64 = NoImage THEN <<>>
   ELSE IF imageBase64.mime # ""
        THEN <<InlineData(imageBase64.mime, imageBase64.data)>>
        ELSE <<InlineData("image/jpeg", imageBase64.data)>>)

\* lines 160-165
personaPrefix(systemPrompt) ==
  IF systemPrompt # EmptyStr
  THEN << [role |-> "user",
           parts |-> <<TextPart(<<"[System Instructions] ">> \o systemPrompt)>>],
          [role |-> "model", parts |-> <<TextPart(<<"Understood.">>)>>] >>
  ELSE <<>>

\* Mutant: the test is on 'user', so any other role becomes 'model'.
vendorRoleUserTest(role) == IF role = "user" THEN "user" ELSE "model"

\* line 169
vendorRole(role) == IF role = "assistant" THEN "model" ELSE "user"

\* lines 168-171
formattedHistory(history) ==
  [i \in 1..Len(history) |->
     [role |-> vendorRole(history[i].role),
      parts |-> <<TextPart(history[i].content)>>]]

\* lines 173-177
contents(history, newUserText, imageBase64, systemPrompt) ==
  personaPrefix(systemPrompt) \o formattedHistory(history) \o
  << [role |-> "user", parts |-> parts(newUserText, imageBase64)] >>

\* What the network gives back to one fetch: it rejects (net), or a response
\* with ok/status whose body parses as JSON or not (jsonOk); message is
\* error.message of the body, text is candidates[0].content.parts[0].text
\* (hasText FALSE: that shape is absent).
Response(net, ok, status, jsonOk, message, hasText, text) ==
  [net |-> net, ok |-> ok, status |-> status, jsonOk |-> jsonOk,
   message |-> message, hasText |-> hasText, text |-> text]
NetworkError        == Response(TRUE, FALSE, "0", FALSE, EmptyStr, FALSE, EmptyStr)
HttpError(st, msg)  == Response(FALSE, FALSE, st, TRUE, msg, FALSE, EmptyStr)
HttpErrorNoBody(st) == Response(FALSE, FALSE, st, FALSE, EmptyStr, FALSE, EmptyStr)
OkText(text)        == Response(FALSE, TRUE, "200", TRUE, EmptyStr, TRUE, text)
OkNoText            == Response(FALSE, TRUE, "200", TRUE, EmptyStr, FALSE, EmptyStr)
OkBadJson           == Response(FALSE, TRUE, "200", FALSE, EmptyStr, FALSE, EmptyStr)

\* One call of fetchAPIBackground.  st: none (not called), pending (the
\* fetch is in flight), ok (returned out), err (threw Error(out)).  sent:
\* the HTTP request was issued, with body.contents = contents.
NoCall ==
  [st |-> "none", sent |-> FALSE, history |-> <<>>, newUserText |-> Undefined,
   imageBase64 |-> NoImage, contents |-> <<>>, out |-> EmptyStr]

\* Mutant: the key is not checked (lines 142-143 missing).
fetchWithoutKeyCheck(key, history, newUserText, imageBase64, systemPrompt) ==
  [NoCall EXCEPT !.st = "pending", !.sent = TRUE, !.history = history,
                 !.newUserText = newUserText, !.imageBase64 = imageBase64,
                 !.contents = contents(history, newUserText, imageBase64,
                                       systemPrompt)]

\* lines 142-199: up to the await of fetch.
fetchAPIBackground(key, history, newUserText, imageBase64, systemPrompt) ==
  IF key = ""
  THEN [NoCall EXCEPT !.st = "err", !.history = history,
                      !.newUserText = newUserText, !.imageBase64 = imageBase64,
                      !.out = <<"No API key saved.">>]
  ELSE [NoCall EXCEPT !.st = "pending", !.sent = TRUE, !.history = history,
                      !.newUserText = newUserText, !.imageBase64 = imageBase64,
                      !.contents = contents(history, newUserText, imageBase64,
                                            systemPrompt)]

\* Mutant: an OK reply without the text shape is an error.
fetchSettledNoTextThrows(call, res) ==
  IF res.net
  THEN [call EXCEPT !.st = "err", !.out = <<"Failed to fetch">>]
  ELSE IF ~res.ok
  THEN [call EXCEPT !.st = "err",
                    !.out = IF res.jsonOk /\ res.message # EmptyStr
                            THEN res.message ELSE <<"HTTP ", res.status>>]
  ELSE IF ~res.jsonOk
  THEN [call EXCEPT !.st = "err", !.out = <<"Unexpected end of JSON input">>]
  ELSE IF ~res.hasText
  THEN [call EXCEPT !.st = "err", !.out = <<"Empty reply">>]
  ELSE [call EXCEPT !.st = "ok", !.out = res.text]

\* lines 195-207: the fetch settles with response res.
fetchSettled(call, res) ==
  IF res.net
  THEN [call EXCEPT !.st = "err", !.out = <<"Failed to fetch">>]
  ELSE IF ~res.ok
  THEN [call EXCEPT !.st = "err",
                    !.out = IF res.jsonOk /\ res.message # EmptyStr
                            THEN res.message ELSE <<"HTTP ", res.status>>]
  ELSE IF ~res.jsonOk
  THEN [call EXCEPT !.st = "err", !.out = <<"Unexpected end of JSON input">>]
  ELSE [call EXCEPT !.st = "ok",
                    !.out = IF res.hasText THEN res.text ELSE EmptyStr]

(***************************************************************************)
(* Terminal bubble helpers (lines 212-244).  The DOM is the sequence of    *)
(* terminal bubbles in the messages container, in document order.          *)
(***************************************************************************)
Bubble(id, text, isError) == [id |-> id, text |-> text, isError |-> isError]

\* document.getElementById(id): index of the first element with that id, 0 if none.
getElementById(d, id) ==
  IF \E i \in 1..Len(d) : d[i].id = id
  THEN CHOOSE i \in 1..Len(d) : d[i].id = id /\ \A j \in 1..(i-1) : d[j].id # id
  ELSE 0

\* lines 212-229: the new bubble, appended to the container.
createTerminalBubble(d, id) == Append(d, Bubble(id, <<"> Initializing...">>, FALSE))

\* Mutant: the first bubble of the container is updated, whatever its id.
updateTerminalFirst(d, id, text, isError) ==
  IF Len(d) = 0 THEN d
  ELSE [d EXCEPT ![1] = [@ EXCEPT !.text = text,
                                  !.isError = IF isError THEN TRUE ELSE @]]

\* lines 231-239
updateTerminal(d, id, text, isError) ==
  LET el == getElementById(d, id) IN
  IF el = 0 THEN d
  ELSE [d EXCEPT ![el] = [@ EXCEPT !.text = text,
                                   !.isError = IF isError THEN TRUE ELSE @]]

\* lines 241-244
removeTerminal(d, id) ==
  LET el == getElementById(d, id) IN
  IF el = 0 THEN d
  ELSE SubSeq(d, 1, el-1) \o SubSeq(d, el+1, Len(d))

(***************************************************************************)
(* Inputs                                                                  *)
(***************************************************************************)
\* The chat holds at most MaxHistory turns before the run.
MaxHistory == 2

Roles == {"user", "assistant", "system"}

\* A stored turn of each role (content fixed per role).
Turn(role) ==
  [role |-> role,
   content |-> IF role = "user" THEN <<"hi">>
               ELSE IF role = "assistant" THEN <<"hello">> ELSE <<"note">>,
   imageBase64 |-> NoImage]

InitialChats ==
  UNION {[1..n -> {Turn(r) : r \in Roles}] : n \in 0..MaxHistory}

UserTexts == {EmptyStr, <<"Q">>}

ApiKeys == {"", "k1"}

Q == "\""
StrLit(s) == <<Q>> \o s \o <<Q>>
Member(k, v) == StrLit(<<k>>) \o <<":">> \o v
PlanJson(a, b) == <<"{">> \o Member("taskA", a) \o <<",">> \o Member("taskB", b) \o <<"}">>

\* Replies of the planning call: the plan bare and fenced, with an extra
\* member, with a fence inside a task, with values that are not non-empty
\* strings, and texts that are not a JSON object or not JSON at all.
PlannerReplies ==
  { EmptyStr,
    <<"Sure">>,
    <<"null">>,
    <<"[", "]">>,
    <<"{", Q, "taskA">>,
    <<"Plan", " ">> \o PlanJson(StrLit(<<"x">>), StrLit(<<"y">>)),
    PlanJson(StrLit(<<"x">>), StrLit(<<"y">>)),
    <<FenceJson, "\n">> \o PlanJson(StrLit(<<"x">>), StrLit(<<"y">>)) \o <<"\n", Fence>>,
    <<"{">> \o Member("taskA", StrLit(<<"x">>)) \o <<"}">>,
    <<"{">> \o Member("taskB", StrLit(<<"y">>)) \o <<"}">>,
    PlanJson(StrLit(EmptyStr), StrLit(<<"y">>)),
    PlanJson(StrLit(<<"x">>), StrLit(EmptyStr)),
    PlanJson(StrLit(<<"x">>), <<"null">>),
    PlanJson(<<"0">>, StrLit(<<"y">>)),
    PlanJson(<<"5">>, StrLit(<<"y">>)),
    PlanJson(StrLit(<<"x">>), <<"[", "]">>),
    PlanJson(StrLit(<<"x", Fence, "z">>), StrLit(<<"y">>)),
    <<"{">> \o Member("taskA", StrLit(<<"x">>)) \o <<",">> \o
      Member("note", <<"true">>) \o <<",">> \o
      Member("taskB", StrLit(<<"y">>)) \o <<"}">> }

WorkerTexts == {<<"A-out">>, <<"B-out", "\n">>, <<" ", "C-out">>}
FinalTexts  == {<<"final">>}

Failures == {NetworkError, HttpError("400", <<"API key not valid">>),
             HttpError("500", EmptyStr), HttpErrorNoBody("503"), OkBadJson}

PlannerResponses == Failures \cup {OkNoText} \cup {OkText(t) : t \in PlannerReplies}
WorkerResponses  == {NetworkError, HttpError("500", EmptyStr), OkNoText}
                      \cup {OkText(t) : t \in WorkerTexts}
SynthResponses   == Failures \cup {OkNoText} \cup {OkText(t) : t \in FinalTexts}

\* Outcomes of the calls into the page that agent.js does not define.
CreateOutcomes == {"ok", "noContainer", "scrollThrows"}
AppendOutcomes == {"ok", "throwsBefore", "throwsAfter"}

(***************************************************************************)
(* runAgentMode (lines 9-135)                                              *)
(***************************************************************************)
orchestratorPrompt  == <<"You are the Orchestrator.">>
workerSystemPrompt  == <<"You are a specialized worker node.">>
synthesizerPrompt   == <<"You are the final compiler and Senior Code Reviewer.">>

\* Date.now() when the run's bubble is created, and when the bubble left
\* by an earlier failed run was created.
NewTerminalId == 2
OldTerminalId == 1

CallIds == {"plan", "workerA", "workerB", "synth"}

NoError == [thrown |-> FALSE, message |-> EmptyStr]
Error(message) == [thrown |-> TRUE, message |-> message]

VARIABLES
  apiKey,               \* LS 'aura:apikey'
  messages,             \* currentChat().messages
  pendingImage,         \* state.pendingImage.base64 (NoImage: none pending)
  sendBtnDisabled,      \* document.getElementById('send-btn').disabled
  isStreaming,          \* state.isStreaming
  dom,                  \* terminal bubbles in #messages-container
  toasts,               \* toast(message, kind) calls made
  pc,                   \* where the invocation of runAgentMode stands
  userText, userMsg, terminalId, history, orchestratorResponse, tasks,
  resultA, resultB, combinedInput, finalResponse,   \* locals of runAgentMode
  err,                  \* the exception caught at line 126
  calls                 \* the four calls of fetchAPIBackground

page   == <<messages, pendingImage, sendBtnDisabled, isStreaming, dom, toasts>>
locals == <<userText, userMsg, terminalId, history, orchestratorResponse, tasks,
            resultA, resultB, combinedInput, finalResponse, err>>
vars   == <<apiKey, page, pc, locals, calls>>

Init ==
  /\ apiKey = ""
  /\ messages \in InitialChats
  /\ pendingImage \in Images \cup {NoImage}
  /\ sendBtnDisabled = FALSE
  /\ isStreaming = FALSE
  /\ dom = <<Bubble(OldTerminalId, <<"> Error: ", "HTTP ", "500">>, TRUE)>>
  /\ toasts = <<>>
  /\ pc = "idle"
  /\ userText = EmptyStr
  /\ userMsg = Turn("user")
  /\ terminalId = 0
  /\ history = <<>>
  /\ orchestratorResponse = EmptyStr
  /\ tasks = Undefined
  /\ resultA = EmptyStr
  /\ resultB = EmptyStr
  /\ combinedInput = EmptyStr
  /\ finalResponse = EmptyStr
  /\ err = NoError
  /\ calls = [c \in CallIds |-> NoCall]

\* The invocation is suspended at an await, has not begun, or has ended:
\* only then can another event of the page or of the network be handled.
Suspended ==
  pc \in {"idle", "returned", "crashed", "awaitPlan", "awaitWorkers", "awaitSynth",
          "done", "failed"}

\* The user saves or clears the API key in the settings.
SetApiKey(k) ==
  /\ Suspended
  /\ k # apiKey
  /\ apiKey' = k
  /\ UNCHANGED <<page, pc, locals, calls>>

\* Mutant: the text is not tested (line 10 missing).
runAgentModeNoGuard(text) ==
  /\ pc = "idle"
  /\ userText' = text
  /\ userMsg' = [role |-> "user", content |-> text, imageBase64 |-> pendingImage]
  /\ pendingImage' = NoImage
  /\ messages' = Append(messages, userMsg')
  /\ pc' = "L27"
  /\ UNCHANGED <<apiKey, sendBtnDisabled, isStreaming, dom, toasts, terminalId,
                 history, orchestratorResponse, tasks, resultA, resultB,
                 combinedInput, finalResponse, err, calls>>

\* lines 9-24: the falsy text returns at once; otherwise the user turn,
\* with the pending image if there is one, is appended to the chat.
runAgentMode(text) ==
  /\ pc = "idle"
  /\ IF text = EmptyStr
     THEN /\ pc' = "returned"
          /\ UNCHANGED <<apiKey, page, locals, calls>>
     ELSE /\ userText' = text
          /\ userMsg' = [role |-> "user", content |-> text, imageBase64 |-> pendingImage]
          /\ pendingImage' = NoImage
          /\ messages' = Append(messages, userMsg')
          /\ pc' = "L27"
          /\ UNCHANGED <<apiKey, sendBtnDisabled, isStreaming, dom, toasts, terminalId,
                         history, orchestratorResponse, tasks, resultA, resultB,
                         combinedInput, finalResponse, err, calls>>

\* lines 27-28
DisableInput ==
  /\ pc = "L27"
  /\ sendBtnDisabled' = TRUE
  /\ isStreaming' = TRUE
  /\ pc' = "L31"
  /\ UNCHANGED <<apiKey, messages, pendingImage, dom, toasts, locals, calls>>

\* lines 31-32, outside the try: an exception of createTerminalBubble
\* (no container: line 226; scrollBottom: line 227) ends the invocation.
CreateTerminal(outcome) ==
  /\ pc = "L31"
  /\ CASE outcome = "ok" ->
            /\ terminalId' = NewTerminalId
            /\ dom' = updateTerminal(createTerminalBubble(dom, NewTerminalId),
                                     NewTerminalId,
                                     <<"> Initializing S.I.L.K. Agent Mode...">>, FALSE)
            /\ pc' = "L38"
       [] outcome = "noContainer" ->
            /\ pc' = "crashed"
            /\ UNCHANGED <<terminalId, dom>>
       [] outcome = "scrollThrows" ->
            /\ dom' = createTerminalBubble(dom, NewTerminalId)
            /\ pc' = "crashed"
            /\ UNCHANGED terminalId
  /\ UNCHANGED <<apiKey, messages, pendingImage, sendBtnDisabled, isStreaming, toasts,
                 userText, userMsg, history, orchestratorResponse, tasks, resultA,
                 resultB, combinedInput, finalResponse, err, calls>>

\* Mutant: the triggering turn is not cut off (no slice(0, -1)).
SliceNone(msgs) ==
  [i \in 1..Len(msgs) |-> [role |-> msgs[i].role, content |-> msgs[i].content]]

\* line 41: chat.messages.slice(0, -1).map(m => ({role, content}))
Slice(msgs) ==
  [i \in 1..(Len(msgs) - 1) |-> [role |-> msgs[i].role, content |-> msgs[i].content]]

\* lines 38-57: status, history, and the planning call up to its fetch.
Phase1Call ==
  /\ pc = "L38"
  /\ dom' = updateTerminal(dom, terminalId, <<"> Orchestrator analyzing request...">>, FALSE)
  /\ history' = Slice(messages)
  /\ LET c == fetchAPIBackground(apiKey, history', JStr(userText),
                                 userMsg.imageBase64, orchestratorPrompt)
     IN /\ calls' = [calls EXCEPT !["plan"] = c]
        /\ IF c.st = "err"
           THEN pc' = "catch" /\ err' = Error(c.out)
           ELSE pc' = "awaitPlan" /\ UNCHANGED err
  /\ UNCHANGED <<apiKey, messages, pendingImage, sendBtnDisabled, isStreaming, toasts,
                 userText, userMsg, terminalId, orchestratorResponse, tasks, resultA,
                 resultB, combinedInput, finalResponse>>

\* lines 51, 195-207: the planning call settles.
Phase1Settle(res) ==
  /\ pc = "awaitPlan"
  /\ LET c == fetchSettled(calls["plan"], res)
     IN /\ calls' = [calls EXCEPT !["plan"] = c]
        /\ IF c.st = "err"
           THEN pc' = "catch" /\ err' = Error(c.out) /\ UNCHANGED orchestratorResponse
           ELSE pc' = "L60" /\ orchestratorResponse' = c.out /\ UNCHANGED err
  /\ UNCHANGED <<apiKey, page, userText, userMsg, terminalId, history, tasks, resultA,
                 resultB, combinedInput, finalResponse>>

\* Mutant: taskB is not looked at.
planRejectedTaskAOnly(t) ==
  \/ ~Truthy(t)
  \/ ~Truthy(GetProp(t, <<"taskA">>))

\* line 69: !tasks || !tasks.taskA || !tasks.taskB
planRejected(t) ==
  \/ ~Truthy(t)
  \/ ~Truthy(GetProp(t, <<"taskA">>))
  \/ ~Truthy(GetProp(t, <<"taskB">>))

\* lines 60-71
ParsePlan ==
  /\ pc = "L60"
  /\ LET parsed == JSONparse(cleanJson(orchestratorResponse)) IN
     IF ~parsed.ok
     THEN /\ pc' = "catch"
          /\ err' = Error(<<"Orchestrator failed to generate a valid plan.">>)
          /\ UNCHANGED tasks
     ELSE IF planRejected(parsed.val)
     THEN /\ pc' = "catch"
          /\ err' = Error(<<"Orchestrator response missing taskA or taskB.">>)
          /\ tasks' = parsed.val
     ELSE /\ pc' = "L73"
          /\ tasks' = parsed.val
          /\ UNCHANGED err
  /\ UNCHANGED <<apiKey, page, userText, userMsg, terminalId, history,
                 orchestratorResponse, resultA, resultB, combinedInput, finalResponse,
                 calls>>

\* Mutant: only the call for taskA is made at the dispatch.
Phase2CallOnlyA ==
  /\ pc = "L73"
  /\ dom' = updateTerminal(dom, terminalId,
        <<"> Orchestrator generated tasks. Dispatching to parallel workers...">>, FALSE)
  /\ LET a == fetchAPIBackground(apiKey, <<>>, GetProp(tasks, <<"taskA">>), NoImage,
                                 workerSystemPrompt)
     IN /\ calls' = [calls EXCEPT !["workerA"] = a]
        /\ IF a.st = "err" THEN pc' = "catch" /\ err' = Error(a.out)
           ELSE pc' = "awaitWorkers" /\ UNCHANGED err
  /\ UNCHANGED <<apiKey, messages, pendingImage, sendBtnDisabled, isStreaming, toasts,
                 userText, userMsg, terminalId, history, orchestratorResponse, tasks,
                 resultA, resultB, combinedInput, finalResponse>>

\* lines 73-87: status, then both worker calls up to their fetches.  Both
\* are made before Promise.all is awaited; a call that throws at once
\* (no API key) rejects it, the first of the array first.
Phase2Call ==
  /\ pc = "L73"
  /\ dom' = updateTerminal(dom, terminalId,
        <<"> Orchestrator generated tasks. Dispatching to parallel workers...">>, FALSE)
  /\ LET a == fetchAPIBackground(apiKey, <<>>, GetProp(tasks, <<"taskA">>), NoImage,
                                 workerSystemPrompt)
         b == fetchAPIBackground(apiKey, <<>>, GetProp(tasks, <<"taskB">>), NoImage,
                                 workerSystemPrompt)
     IN /\ calls' = [calls EXCEPT !["workerA"] = a, !["workerB"] = b]
        /\ IF a.st = "err" THEN pc' = "catch" /\ err' = Error(a.out)
           ELSE IF b.st = "err" THEN pc' = "catch" /\ err' = Error(b.out)
           ELSE pc' = "awaitWorkers" /\ UNCHANGED err
  /\ UNCHANGED <<apiKey, messages, pendingImage, sendBtnDisabled, isStreaming, toasts,
                 userText, userMsg, terminalId, history, orchestratorResponse, tasks,
                 resultA, resultB, combinedInput, finalResponse>>

\* Mutant: the run resumes as soon as one worker call has returned
\* (Promise.race in place of Promise.all).
WorkerSettleRace(w, res) ==
  /\ pc \in {"idle", "returned", "crashed", "awaitPlan", "awaitWorkers", "awaitSynth",
             "done", "failed"}
  /\ calls[w].st = "pending"
  /\ LET c == fetchSettled(calls[w], res)
         after == [calls EXCEPT ![w] = c]
     IN /\ calls' = after
        /\ IF pc # "awaitWorkers"
           THEN UNCHANGED <<pc, err, resultA, resultB>>
           ELSE IF c.st = "err"
           THEN pc' = "catch" /\ err' = Error(c.out) /\ UNCHANGED <<resultA, resultB>>
           ELSE /\ pc' = "L89"
                /\ resultA' = after["workerA"].out
                /\ resultB' = after["workerB"].out
                /\ UNCHANGED err
  /\ UNCHANGED <<apiKey, messages, pendingImage, sendBtnDisabled, isStreaming, dom,
                 toasts, userText, userMsg, terminalId, history, orchestratorResponse,
                 tasks, combinedInput, finalResponse>>

\* Mutant: a worker call that threw counts as settled with its message
\* (Promise.allSettled in place of Promise.all).
WorkerSettleAllSettled(w, res) ==
  /\ pc \in {"idle", "returned", "crashed", "awaitPlan", "awaitWorkers", "awaitSynth",
             "done", "failed"}
  /\ calls[w].st = "pending"
  /\ LET c == fetchSettled(calls[w], res)
         after == [calls EXCEPT ![w] = c]
     IN /\ calls' = after
        /\ IF pc = "awaitWorkers" /\ after["workerA"].st \in {"ok", "err"}
                                  /\ after["workerB"].st \in {"ok", "err"}
           THEN /\ pc' = "L89"
                /\ resultA' = after["workerA"].out
                /\ resultB' = after["workerB"].out
                /\ UNCHANGED err
           ELSE UNCHANGED <<pc, err, resultA, resultB>>
  /\ UNCHANGED <<apiKey, messages, pendingImage, sendBtnDisabled, isStreaming, dom,
                 toasts, userText, userMsg, terminalId, history, orchestratorResponse,
                 tasks, combinedInput, finalResponse>>

\* Mutant: the two worker calls are awaited one after the other, A first
\* (await of each promise in turn in place of Promise.all).
WorkerSettleSequential(w, res) ==
  /\ pc \in {"idle", "returned", "crashed", "awaitPlan", "awaitWorkers", "awaitSynth",
             "done", "failed"}
  /\ calls[w].st = "pending"
  /\ LET c == fetchSettled(calls[w], res)
         after == [calls EXCEPT ![w] = c]
     IN /\ calls' = after
        /\ IF pc # "awaitWorkers"
           THEN UNCHANGED <<pc, err, resultA, resultB>>
           ELSE IF after["workerA"].st = "err"
           THEN /\ pc' = "catch"
                /\ err' = Error(after["workerA"].out)
                /\ UNCHANGED <<resultA, resultB>>
           ELSE IF after["workerA"].st = "ok" /\ after["workerB"].st = "err"
           THEN /\ pc' = "catch"
                /\ err' = Error(after["workerB"].out)
                /\ UNCHANGED <<resultA, resultB>>
           ELSE IF after["workerA"].st = "ok" /\ after["workerB"].st = "ok"
           THEN /\ pc' = "L89"
                /\ resultA' = after["workerA"].out
                /\ resultB' = after["workerB"].out
                /\ UNCHANGED err
           ELSE UNCHANGED <<pc, err, resultA, resultB>>
  /\ UNCHANGED <<apiKey, messages, pendingImage, sendBtnDisabled, isStreaming, dom,
                 toasts, userText, userMsg, terminalId, history, orchestratorResponse,
                 tasks, combinedInput, finalResponse>>

\* lines 84-87, 195-207: one worker call settles.  While Promise.all is
\* awaited, a rejection is thrown at line 84 and the second fulfilment
\* resumes the run with [resultA, resultB] in array order; once the run has
\* left the await, the settling call is observed by nobody.
WorkerSettle(w, res) ==
  /\ Suspended
  /\ calls[w].st = "pending"
  /\ LET c == fetchSettled(calls[w], res)
         after == [calls EXCEPT ![w] = c]
     IN /\ calls' = after
        /\ IF pc # "awaitWorkers"
           THEN UNCHANGED <<pc, err, resultA, resultB>>
           ELSE IF c.st = "err"
           THEN pc' = "catch" /\ err' = Error(c.out) /\ UNCHANGED <<resultA, resultB>>
           ELSE IF after["workerA"].st = "ok" /\ after["workerB"].st = "ok"
           THEN /\ pc' = "L89"
                /\ resultA' = after["workerA"].out
                /\ resultB' = after["workerB"].out
                /\ UNCHANGED err
           ELSE UNCHANGED <<pc, err, resultA, resultB>>
  /\ UNCHANGED <<apiKey, page, userText, userMsg, terminalId, history,
                 orchestratorResponse, tasks, combinedInput, finalResponse>>

\* Mutant: the two results interpolated the other way round.
combinedSwapped(a, b) ==
  trim(<<"\n", "--- WORKER A OUTPUT ---", "\n">> \o b \o
       <<"\n", "\n", "--- WORKER B OUTPUT ---", "\n">> \o a \o
       <<"\n", " ", " ", " ", " ">>)

\* lines 101-107: the template literal, trimmed.
combined(a, b) ==
  trim(<<"\n", "--- WORKER A OUTPUT ---", "\n">> \o a \o
       <<"\n", "\n", "--- WORKER B OUTPUT ---", "\n">> \o b \o
       <<"\n", " ", " ", " ", " ">>)

\* lines 89-115: status, the combined input, and the synthesis call up to its fetch.
Phase3Call ==
  /\ pc = "L89"
  /\ dom' = updateTerminal(dom, terminalId,
        <<"> Workers A and B have completed execution. Synthesizing final output...">>,
        FALSE)
  /\ combinedInput' = combined(resultA, resultB)
  /\ LET c == fetchAPIBackground(apiKey, history, JStr(combinedInput'), NoImage,
                                 synthesizerPrompt)
     IN /\ calls' = [calls EXCEPT !["synth"] = c]
        /\ IF c.st = "err"
           THEN pc' = "catch" /\ err' = Error(c.out)
           ELSE pc' = "awaitSynth" /\ UNCHANGED err
  /\ UNCHANGED <<apiKey, messages, pendingImage, sendBtnDisabled, isStreaming, toasts,
                 userText, userMsg, terminalId, history, orchestratorResponse, tasks,
                 resultA, resultB, finalResponse>>

\* lines 109, 195-207: the synthesis call settles.
Phase3Settle(res) ==
  /\ pc = "awaitSynth"
  /\ LET c == fetchSettled(calls["synth"], res)
     IN /\ calls' = [calls EXCEPT !["synth"] = c]
        /\ IF c.st = "err"
           THEN pc' = "catch" /\ err' = Error(c.out) /\ UNCHANGED finalResponse
           ELSE pc' = "L120" /\ finalResponse' = c.out /\ UNCHANGED err
  /\ UNCHANGED <<apiKey, page, userText, userMsg, terminalId, history,
                 orchestratorResponse, tasks, resultA, resultB, combinedInput>>

\* Mutant: the bubble is not removed (line 120 missing).
FinalizeKeepTerminal ==
  /\ pc = "L120"
  /\ pc' = "L124"
  /\ UNCHANGED <<apiKey, messages, pendingImage, sendBtnDisabled, isStreaming, dom,
                 toasts, userText, userMsg, terminalId, history, orchestratorResponse,
                 tasks, resultA, resultB, combinedInput, finalResponse, err, calls>>

\* line 120
FinalizeRemove ==
  /\ pc = "L120"
  /\ dom' = removeTerminal(dom, terminalId)
  /\ pc' = "L124"
  /\ UNCHANGED <<apiKey, messages, pendingImage, sendBtnDisabled, isStreaming, toasts,
                 locals, calls>>

\* line 124: appendMessage stores and renders the assistant turn; it may
\* throw before or after it has stored the turn.
FinalizeAppend(outcome) ==
  /\ pc = "L124"
  /\ LET turn == [role |-> "assistant", content |-> finalResponse,
                  imageBase64 |-> NoImage]
     IN CASE outcome = "ok" ->
               /\ messages' = Append(messages, turn)
               /\ pc' = "finally"
               /\ UNCHANGED err
          [] outcome = "throwsBefore" ->
               /\ pc' = "catch"
               /\ err' = Error(<<"appendMessage failed">>)
               /\ UNCHANGED messages
          [] outcome = "throwsAfter" ->
               /\ messages' = Append(messages, turn)
               /\ pc' = "catch"
               /\ err' = Error(<<"appendMessage failed">>)
  /\ UNCHANGED <<apiKey, pendingImage, sendBtnDisabled, isStreaming, dom, toasts,
                 userText, userMsg, terminalId, history, orchestratorResponse, tasks,
                 resultA, resultB, combinedInput, finalResponse, calls>>

\* lines 126-130
Catch ==
  /\ pc = "catch"
  /\ dom' = updateTerminal(dom, terminalId, <<"> Error: ">> \o err.message, TRUE)
  /\ toasts' = Append(toasts, [message |-> <<"Agent Mode Error: ">> \o err.message,
                               kind |-> "error"])
  /\ pc' = "finally"
  /\ UNCHANGED <<apiKey, messages, pendingImage, sendBtnDisabled, isStreaming, locals,
                 calls>>

\* lines 131-134
Finally ==
  /\ pc = "finally"
  /\ isStreaming' = FALSE
  /\ sendBtnDisabled' = FALSE
  /\ pc' = IF err.thrown THEN "failed" ELSE "done"
  /\ UNCHANGED <<apiKey, messages, pendingImage, dom, toasts, locals, calls>>

Next ==
  \/ \E k \in ApiKeys : SetApiKey(k)
  \/ \E text \in UserTexts : runAgentMode(text)
  \/ DisableInput
  \/ \E o \in CreateOutcomes : CreateTerminal(o)
  \/ Phase1Call
  \/ \E res \in PlannerResponses : Phase1Settle(res)
  \/ ParsePlan
  \/ Phase2Call
  \/ \E w \in {"workerA", "workerB"} : \E res \in WorkerResponses : WorkerSettle(w, res)
  \/ Phase3Call
  \/ \E res \in SynthResponses : Phase3Settle(res)
  \/ FinalizeRemove
  \/ \E o \in AppendOutcomes : FinalizeAppend(o)
  \/ Catch
  \/ Finally

Spec == Init /\ [][Next]_vars

(***************************************************************************)
(* Overlapping invocations.  runAgentMode has no guard against being       *)
(* called while an earlier call of it is suspended at an await, so the     *)
(* page can hold several invocations at once.  In SpecOverlap the locals   *)
(* of runAgentMode (pc, userText, ..., err, calls) are functions of the    *)
(* invocation, the page variables are shared, and an action is one         *)
(* synchronous stretch of an invocation, from its start or from the        *)
(* settling of the call it awaits up to its next await or its end.         *)
(***************************************************************************)
\* At most MaxRuns invocations are made.
MaxRuns == 2

Runs == 1..MaxRuns

\* The chat before the first invocation: empty, or one exchange.
ChatsOverlap == {<<>>, <<Turn("user"), Turn("assistant")>>}

\* Date.now() of the r-th invocation (line 213).
TerminalIdOf(r) == OldTerminalId + r

GoodPlan == PlanJson(StrLit(<<"x">>), StrLit(<<"y">>))

PlannerResponsesOverlap == {NetworkError, OkText(<<"Sure">>), OkText(GoodPlan)}
WorkerResponsesOverlap  == {NetworkError, OkText(<<"A-out">>)}
SynthResponsesOverlap   == {NetworkError, OkText(<<"final">>)}

InitOverlap ==
  /\ apiKey = ""
  /\ messages \in ChatsOverlap
  /\ pendingImage \in Images \cup {NoImage}
  /\ sendBtnDisabled = FALSE
  /\ isStreaming = FALSE
  /\ dom = <<Bubble(OldTerminalId, <<"> Error: ", "HTTP ", "500">>, TRUE)>>
  /\ toasts = <<>>
  /\ pc = [r \in Runs |-> "idle"]
  /\ userText = [r \in Runs |-> EmptyStr]
  /\ userMsg = [r \in Runs |-> Turn("user")]
  /\ terminalId = [r \in Runs |-> 0]
  /\ history = [r \in Runs |-> <<>>]
  /\ orchestratorResponse = [r \in Runs |-> EmptyStr]
  /\ tasks = [r \in Runs |-> Undefined]
  /\ resultA = [r \in Runs |-> EmptyStr]
  /\ resultB = [r \in Runs |-> EmptyStr]
  /\ combinedInput = [r \in Runs |-> EmptyStr]
  /\ finalResponse = [r \in Runs |-> EmptyStr]
  /\ err = [r \in Runs |-> NoError]
  /\ calls = [r \in Runs |-> [c \in CallIds |-> NoCall]]

\* The user saves or clears the API key while no invocation is executing.
SetApiKeyOverlap(k) ==
  /\ k # apiKey
  /\ apiKey' = k
  /\ UNCHANGED <<page, pc, locals, calls>>

\* lines 126-134: invocation r, whose bubble is tid, catches Error(message)
\* thrown in the try when the bubbles are d: catch and finally.
CatchFinally(r, tid, d, message) ==
  /\ err' = [err EXCEPT ![r] = Error(message)]
  /\ dom' = updateTerminal(d, tid, <<"> Error: ">> \o message, TRUE)
  /\ toasts' = Append(toasts, [message |-> <<"Agent Mode Error: ">> \o message,
                               kind |-> "error"])
  /\ isStreaming' = FALSE
  /\ sendBtnDisabled' = FALSE
  /\ pc' = [pc EXCEPT ![r] = "failed"]

\* lines 9-57: invocation r from its call to the await of the planning
\* call (or to its end, if it returns or throws before).
Invoke(r, text, outcome) ==
  /\ pc[r] = "idle"
  /\ \A q \in Runs : q < r => pc[q] # "idle"
  /\ IF text = EmptyStr
     THEN /\ pc' = [pc EXCEPT ![r] = "returned"]
          /\ UNCHANGED <<apiKey, page, locals, calls>>
     ELSE LET msg == [role |-> "user", content |-> text, imageBase64 |-> pendingImage]
              msgs == Append(messages, msg)
              tid == TerminalIdOf(r)
              d1 == updateTerminal(createTerminalBubble(dom, tid), tid,
                                   <<"> Initializing S.I.L.K. Agent Mode...">>, FALSE)
              d2 == updateTerminal(d1, tid, <<"> Orchestrator analyzing request...">>,
                                   FALSE)
              c == fetchAPIBackground(apiKey, Slice(msgs), JStr(text), msg.imageBase64,
                                      orchestratorPrompt)
          IN /\ userText' = [userText EXCEPT ![r] = text]
             /\ userMsg' = [userMsg EXCEPT ![r] = msg]
             /\ pendingImage' = NoImage
             /\ messages' = msgs
             /\ CASE outcome = "noContainer" ->
                       /\ sendBtnDisabled' = TRUE
                       /\ isStreaming' = TRUE
                       /\ pc' = [pc EXCEPT ![r] = "crashed"]
                       /\ UNCHANGED <<dom, toasts, terminalId, history, err, calls>>
                  [] outcome = "scrollThrows" ->
                       /\ sendBtnDisabled' = TRUE
                       /\ isStreaming' = TRUE
                       /\ dom' = createTerminalBubble(dom, tid)
                       /\ pc' = [pc EXCEPT ![r] = "crashed"]
                       /\ UNCHANGED <<toasts, terminalId, history, err, calls>>
                  [] outcome = "ok" ->
                       /\ terminalId' = [terminalId EXCEPT ![r] = tid]
                       /\ history' = [history EXCEPT ![r] = Slice(msgs)]
                       /\ calls' = [calls EXCEPT ![r]["plan"] = c]
                       /\ IF c.st = "err"
                          THEN CatchFinally(r, tid, d2, c.out)
                          ELSE /\ sendBtnDisabled' = TRUE
                               /\ isStreaming' = TRUE
                               /\ dom' = d2
                               /\ pc' = [pc EXCEPT ![r] = "awaitPlan"]
                               /\ UNCHANGED <<toasts, err>>
             /\ UNCHANGED <<apiKey, orchestratorResponse, tasks, resultA, resultB,
                            combinedInput, finalResponse>>

\* lines 57-87: the planning call of invocation r settles; the plan is
\* parsed and checked and the two worker calls are made.
PlanSettled(r, res) ==
  /\ pc[r] = "awaitPlan"
  /\ LET c == fetchSettled(calls[r]["plan"], res)
         parsed == JSONparse(cleanJson(c.out))
         a == fetchAPIBackground(apiKey, <<>>, GetProp(parsed.val, <<"taskA">>), NoImage,
                                 workerSystemPrompt)
         b == fetchAPIBackground(apiKey, <<>>, GetProp(parsed.val, <<"taskB">>), NoImage,
                                 workerSystemPrompt)
         d == updateTerminal(dom, terminalId[r],
                <<"> Orchestrator generated tasks. Dispatching to parallel workers...">>,
                FALSE)
     IN IF c.st = "err"
        THEN /\ calls' = [calls EXCEPT ![r]["plan"] = c]
             /\ CatchFinally(r, terminalId[r], dom, c.out)
             /\ UNCHANGED <<orchestratorResponse, tasks>>
        ELSE /\ orchestratorResponse' = [orchestratorResponse EXCEPT ![r] = c.out]
             /\ IF ~parsed.ok
                THEN /\ calls' = [calls EXCEPT ![r]["plan"] = c]
                     /\ CatchFinally(r, terminalId[r], dom,
                                     <<"Orchestrator failed to generate a valid plan.">>)
                     /\ UNCHANGED tasks
                ELSE /\ tasks' = [tasks EXCEPT ![r] = parsed.val]
                     /\ IF planRejected(parsed.val)
                        THEN /\ calls' = [calls EXCEPT ![r]["plan"] = c]
                             /\ CatchFinally(r, terminalId[r], dom,
                                  <<"Orchestrator response missing taskA or taskB.">>)
                        ELSE /\ calls' = [calls EXCEPT ![r]["plan"] = c,
                                                       ![r]["workerA"] = a,
                                                       ![r]["workerB"] = b]
                             /\ IF a.st = "err"
                                THEN CatchFinally(r, terminalId[r], d, a.out)
                                ELSE IF b.st = "err"
                                THEN CatchFinally(r, terminalId[r], d, b.out)
                                ELSE /\ dom' = d
                                     /\ pc' = [pc EXCEPT ![r] = "awaitWorkers"]
                                     /\ UNCHANGED <<toasts, sendBtnDisabled, isStreaming,
                                                    err>>
  /\ UNCHANGED <<apiKey, messages, pendingImage, userText, userMsg, terminalId, history,
                 resultA, resultB, combinedInput, finalResponse>>

\* lines 84-115: a worker call of invocation r settles; when Promise.all
\* is awaited and fulfilled, the synthesis call is made.
WorkerSettled(r, w, res) ==
  /\ calls[r][w].st = "pending"
  /\ LET c == fetchSettled(calls[r][w], res)
         after == [calls[r] EXCEPT ![w] = c]
         d == updateTerminal(dom, terminalId[r],
                <<"> Workers A and B have completed execution. Synthesizing final output...">>,
                FALSE)
         input == combined(after["workerA"].out, after["workerB"].out)
         s == fetchAPIBackground(apiKey, history[r], JStr(input), NoImage,
                                 synthesizerPrompt)
     IN IF pc[r] # "awaitWorkers"
        THEN /\ calls' = [calls EXCEPT ![r] = after]
             /\ UNCHANGED <<page, pc, resultA, resultB, combinedInput, err>>
        ELSE IF c.st = "err"
        THEN /\ calls' = [calls EXCEPT ![r] = after]
             /\ CatchFinally(r, terminalId[r], dom, c.out)
             /\ UNCHANGED <<resultA, resultB, combinedInput>>
        ELSE IF after["workerA"].st = "ok" /\ after["workerB"].st = "ok"
        THEN /\ resultA' = [resultA EXCEPT ![r] = after["workerA"].out]
             /\ resultB' = [resultB EXCEPT ![r] = after["workerB"].out]
             /\ combinedInput' = [combinedInput EXCEPT ![r] = input]
             /\ calls' = [calls EXCEPT ![r] = [after EXCEPT !["synth"] = s]]
             /\ IF s.st = "err"
                THEN CatchFinally(r, terminalId[r], d, s.out)
                ELSE /\ dom' = d
                     /\ pc' = [pc EXCEPT ![r] = "awaitSynth"]
                     /\ UNCHANGED <<toasts, sendBtnDisabled, isStreaming, err>>
        ELSE /\ calls' = [calls EXCEPT ![r] = after]
             /\ UNCHANGED <<page, pc, resultA, resultB, combinedInput, err>>
  /\ UNCHANGED <<apiKey, messages, pendingImage, userText, userMsg, terminalId, history,
                 orchestratorResponse, tasks, finalResponse>>

\* lines 109-134: the synthesis call of invocation r settles; the bubble
\* is removed, the assistant turn appended and the input enabled again.
SynthSettled(r, res, outcome) ==
  /\ pc[r] = "awaitSynth"
  /\ LET c == fetchSettled(calls[r]["synth"], res)
         turn == [role |-> "assistant", content |-> c.out, imageBase64 |-> NoImage]
         d == removeTerminal(dom, terminalId[r])
     IN /\ calls' = [calls EXCEPT ![r]["synth"] = c]
        /\ IF c.st = "err"
           THEN /\ CatchFinally(r, terminalId[r], dom, c.out)
                /\ UNCHANGED <<messages, finalResponse>>
           ELSE /\ finalResponse' = [finalResponse EXCEPT ![r] = c.out]
                /\ CASE outcome = "ok" ->
                          /\ messages' = Append(messages, turn)
                          /\ dom' = d
                          /\ isStreaming' = FALSE
                          /\ sendBtnDisabled' = FALSE
                          /\ pc' = [pc EXCEPT ![r] = "done"]
                          /\ UNCHANGED <<toasts, err>>
                     [] outcome = "throwsBefore" ->
                          /\ CatchFinally(r, terminalId[r], d, <<"appendMessage failed">>)
                          /\ UNCHANGED messages
                     [] outcome = "throwsAfter" ->
                          /\ messages' = Append(messages, turn)
                          /\ CatchFinally(r, terminalId[r], d, <<"appendMessage failed">>)
  /\ UNCHANGED <<apiKey, pendingImage, userText, userMsg, terminalId, history,
                 orchestratorResponse, tasks, resultA, resultB, combinedInput>>

NextOverlap ==
  \/ \E k \in ApiKeys : SetApiKeyOverlap(k)
  \/ \E r \in Runs : \E text \in UserTexts : \E o \in CreateOutcomes : Invoke(r, text, o)
  \/ \E r \in Runs : \E res \in PlannerResponsesOverlap : PlanSettled(r, res)
  \/ \E r \in Runs : \E w \in {"workerA", "workerB"} :
       \E res \in WorkerResponsesOverlap : WorkerSettled(r, w, res)
  \/ \E r \in Runs : \E res \in SynthResponsesOverlap :
       \E o \in AppendOutcomes : SynthSettled(r, res, o)

SpecOverlap == InitOverlap /\ [][NextOverlap]_vars

(***************************************************************************)
(* Properties                                                              *)
(***************************************************************************)
Issued(c)  == calls[c].st # "none"
Workers    == {"workerA", "workerB"}

\* The invocation has entered the try block and taken the history.
InTry == pc \notin {"idle", "returned", "L27", "L31", "L38", "crashed"}

\* The chat is what it was right after the user turn was appended.
ChatAsAfterUserTurn ==
  /\ Len(messages) = Len(history) + 1
  /\ messages[Len(messages)] = userMsg
  /\ Slice(messages) = history

\* A turn was appended after the triggering user turn.
TurnAppended == InTry /\ Len(messages) > Len(history) + 1

\* The run's status indicator is in the page.
IndicatorPresent == terminalId # 0 /\ getElementById(dom, terminalId) # 0
Indicator        == dom[getElementById(dom, terminalId)]

\* The plan the planning stage produced has both tasks.
PlanProduced ==
  /\ calls["plan"].st = "ok"
  /\ tasks.t = "obj"
  /\ {<<"taskA">>, <<"taskB">>} \subseteq DOMAIN tasks.m

C1_Order ==
  /\ Issued("workerA") <=> Issued("workerB")
  /\ Issued("workerA") => PlanProduced
  /\ Issued("synth") => calls["workerA"].st = "ok" /\ calls["workerB"].st = "ok"
  /\ (TurnAppended \/ (InTry /\ ~IndicatorPresent)) => calls["synth"].st = "ok"
  /\ pc = "done" => TurnAppended /\ \A c \in CallIds : calls[c].st = "ok"

C1_AfterFailure ==
  err.thrown =>
    /\ \A c \in CallIds : Issued(c)' <=> Issued(c)
    /\ messages' = messages
    /\ IndicatorPresent => IndicatorPresent'

\* C1: the stages of a run happen only in the order planning call, the two
\* worker calls, synthesis call, finalization: a stage starts only after the
\* one before it has completed successfully, a completed run has skipped
\* none, and once a stage has failed no call is issued and no finalization
\* happens any more.
C1_StageOrder == []C1_Order /\ [][C1_AfterFailure]_vars

C1_Witness ==
  /\ pc = "done"
  /\ \A c \in CallIds : calls[c].st = "ok" /\ calls[c].sent

MissingKeyReported ==
  /\ IndicatorPresent
  /\ Indicator.text = <<"> Error: ", "No API key saved.">>
  /\ Indicator.isError
  /\ \E i \in 1..Len(toasts) :
       toasts[i] = [message |-> <<"Agent Mode Error: ", "No API key saved.">>,
                    kind |-> "error"]

C2_CallWithoutKey ==
  \A c \in CallIds :
    (apiKey = "" /\ ~Issued(c) /\ Issued(c)') =>
      /\ calls'[c].st = "err"
      /\ ~calls'[c].sent
      /\ calls'[c].out = <<"No API key saved.">>

C2_RunWithoutKey ==
  (calls["plan"].st = "err" /\ ~calls["plan"].sent) =>
    /\ \A c \in CallIds : ~calls[c].sent
    /\ pc \in {"catch", "finally", "failed"}
    /\ ChatAsAfterUserTurn
    /\ pc \in {"finally", "failed"} => MissingKeyReported

\* C2: a call of fetchAPIBackground made while the stored API key is empty
\* throws without issuing its HTTP request; a run started with no key
\* issues no request at all, fails, reports the missing key in the status
\* indicator and in a toast, and appends no assistant turn.
C2_NoKeyNoRequest ==
  /\ [][C2_CallWithoutKey]_vars
  /\ [](\A c \in CallIds : calls[c].sent \/ calls[c].st \in {"none", "err"})
  /\ []C2_RunWithoutKey

C2_Witness ==
  /\ pc = "failed"
  /\ calls["plan"].st = "err"
  /\ ~calls["plan"].sent
  /\ apiKey = ""

\* A member of a parsed value is missing or the empty string.
MissingOrEmpty(v, key) ==
  \/ v.t # "obj"
  \/ key \notin DOMAIN v.m
  \/ v.m[key] = JStr(EmptyStr)

\* The reply does not parse after fence stripping, or lacks a task.
BadPlan(reply) ==
  LET parsed == JSONparse(cleanJson(reply)) IN
  \/ ~parsed.ok
  \/ MissingOrEmpty(parsed.val, <<"taskA">>)
  \/ MissingOrEmpty(parsed.val, <<"taskB">>)

PlanningErrors == {<<"Orchestrator failed to generate a valid plan.">>,
                   <<"Orchestrator response missing taskA or taskB.">>}

C3_Rejected ==
  (calls["plan"].st = "ok" /\ pc # "L60" /\ BadPlan(orchestratorResponse)) =>
    /\ err.thrown
    /\ err.message \in PlanningErrors
    /\ pc \in {"catch", "finally", "failed"}
    /\ \A c \in Workers \cup {"synth"} : ~Issued(c)

C3_NoRetry ==
  calls["plan"].st \in {"ok", "err"} => calls'["plan"] = calls["plan"]

\* C3: a planner reply that does not parse as JSON after fence stripping
\* (the empty reply included), or whose value lacks taskA or taskB or has it
\* empty, fails the run with a planning error; no worker call and no
\* synthesis call is issued and the planning call is not made again.
C3_BadPlanFails == []C3_Rejected /\ [][C3_NoRetry]_vars

C3_Witness ==
  /\ pc = "failed"
  /\ orchestratorResponse = <<"{">> \o Member("taskA", StrLit(<<"x">>)) \o <<"}">>
  /\ err.message = <<"Orchestrator response missing taskA or taskB.">>

HeaderA == "--- WORKER A OUTPUT ---"
HeaderB == "--- WORKER B OUTPUT ---"

\* x occurs in y as a run of consecutive tokens.
Occurs(x, y) ==
  \E i \in 0..(Len(y) - Len(x)) : SubSeq(y, i+1, i+Len(x)) = x

\* text has the section of worker A, holding a, and after it the section
\* of worker B, holding b.
UnderSections(text, a, b) ==
  \E i, j \in 1..Len(text) :
    /\ i < j
    /\ text[i] = HeaderA
    /\ text[j] = HeaderB
    /\ Occurs(a, SubSeq(text, i+1, j-1))
    /\ Occurs(b, SubSeq(text, j+1, Len(text)))

\* s without its trailing whitespace.
TrimEnd(s) ==
  IF IsBlank(s) THEN EmptyStr
  ELSE SubSeq(s, 1, CHOOSE i \in 1..Len(s) :
                      /\ s[i] \notin WhiteSpace
                      /\ \A j \in (i+1)..Len(s) : s[j] \in WhiteSpace)

\* The text of the synthesis call, and of the last turn of its request.
SynthText == calls["synth"].newUserText.s

SynthTextSent ==
  calls["synth"].sent =>
    calls["synth"].contents[Len(calls["synth"].contents)].parts = <<TextPart(SynthText)>>

\* C4 as stated: the synthesis input holds the text a of worker A under
\* the WORKER A OUTPUT section and then the text b of worker B under the
\* WORKER B OUTPUT section, whichever worker settled first.
C4_AsStated ==
  Issued("synth") =>
    /\ UnderSections(SynthText, calls["workerA"].out, calls["workerB"].out)
    /\ SynthTextSent

\* C4 amended: the synthesis input holds a under the WORKER A OUTPUT
\* section and then b without its trailing whitespace under the WORKER B
\* OUTPUT section; it is the same function of (a, b) whichever worker
\* settled first.
C4_SynthesisInput ==
  Issued("synth") =>
    LET a == calls["workerA"].out
        b == calls["workerB"].out
    IN /\ calls["workerA"].st = "ok" /\ calls["workerB"].st = "ok"
       /\ UnderSections(SynthText, a, TrimEnd(b))
       /\ SynthText = <<HeaderA, "\n">> \o a \o <<"\n", "\n", HeaderB>> \o
                      (IF IsBlank(b) THEN EmptyStr ELSE <<"\n">> \o TrimEnd(b))
       /\ SynthTextSent

C4_Witness ==
  /\ calls["synth"].sent
  /\ calls["workerA"].out = <<"A-out">>
  /\ calls["workerB"].out = <<"B-out", "\n">>

\* C5: if a worker call fails, then whatever the other worker call does and
\* whenever it does it, no synthesis call is issued, no assistant turn is
\* appended, and the run is on its way to Failed or there.
C5_WorkerFailureAborts ==
  (\E w \in Workers : calls[w].st = "err") =>
    /\ ~Issued("synth")
    /\ ChatAsAfterUserTurn
    /\ pc \in {"catch", "finally", "failed"}
    /\ err.thrown

C5_Witness ==
  /\ pc = "failed"
  /\ calls["workerA"].st = "err"
  /\ calls["workerB"].st = "ok"
  /\ calls["workerB"].sent

\* C6: a successful run appends exactly one turn after the triggering user
\* turn, an assistant turn whose content is the text the synthesis call
\* returned; the status indicator is removed before the turn is appended,
\* so indicator and appended turn are never both there.
C6_FinalAnswer ==
  /\ pc = "done" =>
       /\ Len(messages) = Len(history) + 2
       /\ Slice(SubSeq(messages, 1, Len(messages) - 1)) = history
       /\ messages[Len(messages) - 1] = userMsg
       /\ messages[Len(messages)] =
            [role |-> "assistant", content |-> calls["synth"].out,
             imageBase64 |-> NoImage]
       /\ ~IndicatorPresent
  /\ TurnAppended => ~IndicatorPresent

C6_Witness ==
  /\ pc = "done"
  /\ messages[Len(messages)].content = <<"final">>
  /\ Len(dom) = 1

\* C7 as stated, in its finite form: when the invocation has ended, by
\* returning or by throwing, the submit control is enabled and the
\* in-progress flag is cleared.
C7_ControlRestored ==
  pc \in {"done", "failed", "crashed"} => ~sendBtnDisabled /\ ~isStreaming

\* C8 as stated: at the end of a failed run the chat is what it was right
\* after the user turn was appended, and the status indicator is present,
\* shows the error text and is flagged as an error.
C8_FailedRun ==
  pc = "failed" =>
    /\ ChatAsAfterUserTurn
    /\ IndicatorPresent
    /\ Indicator.text = <<"> Error: ">> \o err.message
    /\ Indicator.isError

TaskKey(w) == IF w = "workerA" THEN <<"taskA">> ELSE <<"taskB">>

\* The parts of a request that are inline images.
ImageParts(c) ==
  {<<i, j>> \in (1..Len(calls[c].contents)) \X (1..2) :
     /\ j <= Len(calls[c].contents[i].parts)
     /\ calls[c].contents[i].parts[j].kind = "inlineData"}

\* C9: each worker call gets an empty history, its own task as text and no
\* image; the synthesis call gets no image; only the request of the
\* planning call can hold an image, in its last turn, and at most one.
C9_ContextIsolation ==
  /\ \A w \in Workers : Issued(w) =>
       /\ calls[w].history = <<>>
       /\ calls[w].newUserText = tasks.m[TaskKey(w)]
       /\ calls[w].imageBase64 = NoImage
       /\ calls[w].sent =>
            /\ Len(calls[w].contents) = 3
            /\ calls[w].contents[3] =
                 [role |-> "user",
                  parts |-> <<TextPart(StringOf(tasks.m[TaskKey(w)]))>>]
            /\ ImageParts(w) = {}
  /\ Issued("synth") => calls["synth"].imageBase64 = NoImage /\ ImageParts("synth") = {}
  /\ calls["plan"].sent =>
       /\ ImageParts("plan") \subseteq {<<Len(calls["plan"].contents), 2>>}
       /\ ImageParts("plan") # {} <=> userMsg.imageBase64 # NoImage

C9_Witness ==
  /\ calls["workerA"].sent /\ calls["workerB"].sent
  /\ ImageParts("plan") # {}
  /\ Len(history) = 2
  /\ tasks.m[<<"taskA">>] = JStr(<<"x">>)
  /\ tasks.m[<<"taskB">>] = JStr(<<"y">>)

\* C10: in every request the history turns follow the two instruction
\* turns in their order and number, 'assistant' sent as 'model' and every
\* other role as 'user', and the current turn is last, as 'user'.
C10_RoleMapping ==
  \A c \in CallIds : calls[c].sent =>
    LET h == calls[c].history
        k == calls[c].contents
    IN /\ Len(k) = 2 + Len(h) + 1
       /\ \A i \in 1..Len(h) :
            /\ k[2+i].role = (IF h[i].role = "assistant" THEN "model" ELSE "user")
            /\ k[2+i].parts = <<TextPart(h[i].content)>>
       /\ k[Len(k)].role = "user"

C10_Witness ==
  /\ calls["synth"].sent
  /\ calls["synth"].history =
       << [role |-> "assistant", content |-> <<"hello">>],
          [role |-> "system", content |-> <<"note">>] >>

\* The task strings a planner may encode, one of them with a code-fence
\* marker inside (as in 'wrap the answer in a fenced block').
EncodedTasks == {<<"x">>, <<"y">>, <<"x", Fence, "z">>}

\* The plan's JSON text wrapped in the json fence markers.
Fenced(text) == <<FenceJson, "\n">> \o text \o <<"\n", Fence>>

\* The reply is the JSON text of the plan {taskA: a, taskB: b}, bare or fenced.
ReplyEncodes(reply, a, b) ==
  reply \in {PlanJson(StrLit(a), StrLit(b)), Fenced(PlanJson(StrLit(a), StrLit(b)))}

\* C11 as stated: when the planner reply is the JSON text of a plan with
\* non-empty task strings a and b, bare or wrapped in fence markers, the plan
\* is accepted and the texts handed to the worker calls are a and b.
C11_PlanRoundTrip ==
  \A a \in EncodedTasks, b \in EncodedTasks :
    (calls["plan"].st = "ok" /\ pc # "L60" /\ ReplyEncodes(orchestratorResponse, a, b)) =>
      /\ ~(err.thrown /\ err.message \in PlanningErrors)
      /\ Issued("workerA") => calls["workerA"].newUserText = JStr(a)
      /\ Issued("workerB") => calls["workerB"].newUserText = JStr(b)

\* Invocation r is in progress: past its setup (lines 9-32) and before its
\* cleanup (lines 131-134), suspended at one of its awaits.
InProgress(r) == pc[r] \in {"awaitPlan", "awaitWorkers", "awaitSynth"}

\* C12 as stated: in every state reached by invocations of runAgentMode,
\* overlapping ones included, while an invocation is in progress the submit
\* control is disabled and the in-progress flag is set.
C12_InProgressDisabled ==
  \A r \in Runs : InProgress(r) => sendBtnDisabled /\ isStreaming

\* Worker call w settles in this step, as a failure / at all.
FailsNow(w)   == calls[w].st = "pending" /\ calls'[w].st = "err"
SettlesNow(w) == calls[w].st = "pending" /\ calls'[w].st # "pending"

C13_Step ==
  /\ \A w \in Workers :
       (pc = "awaitWorkers" /\ FailsNow(w)) =>
         /\ pc' = "catch"
         /\ err' = Error(calls'[w].out)
  /\ (pc = "catch" /\ ~Issued("synth")) =>
       /\ pc' = "finally"
       /\ calls' = calls
       /\ err' = err
       /\ Indicator'.text = <<"> Error: ">> \o err.message
  /\ (pc = "finally" /\ err.thrown) =>
       /\ pc' = "failed"
       /\ calls' = calls
       /\ err' = err
       /\ ~sendBtnDisabled' /\ ~isStreaming'
  /\ \A w \in Workers :
       (pc # "awaitWorkers" /\ SettlesNow(w)) =>
         /\ UNCHANGED <<messages, pendingImage, sendBtnDisabled, isStreaming, dom, toasts>>
         /\ UNCHANGED <<pc, err>>

\* C13: the failure of a worker call while both are awaited is thrown at
\* once with the message of that call, whichever worker it is and whatever
\* the state of the other call; catch and finally then run without any
\* call settling in between; and a worker call that settles after the run
\* has left the await changes neither the chat, the indicator, the toasts,
\* the submit control, the in-progress flag nor the caught error.
C13_FirstFailureWins == [][C13_Step]_vars

C13_Witness ==
  /\ pc = "failed"
  /\ calls["workerA"].st = "err"
  /\ calls["workerA"].out = <<"HTTP ", "500">>
  /\ calls["workerB"].st = "err"
  /\ calls["workerB"].out = <<"Failed to fetch">>
  /\ err.message = <<"Failed to fetch">>
  /\ Indicator.text = <<"> Error: ", "Failed to fetch">>
  /\ Len(toasts) = 1
  /\ ~sendBtnDisabled /\ ~isStreaming

\* The calls of fetchAPIBackground the run has made so far.
IssuedCalls == {c \in CallIds : Issued(c)}

\* What a call was made with.
Request(c) == <<c.sent, c.history, c.newUserText, c.imageBase64, c.contents>>

C14_Calls ==
  /\ Issued("workerA") <=> Issued("workerB")
  /\ Issued("workerA") => calls["plan"].st = "ok"
  /\ Issued("synth") => calls["workerA"].st = "ok" /\ calls["workerB"].st = "ok"
  /\ \A c \in CallIds : calls[c].sent => Issued(c)
  /\ pc = "done" =>
       /\ IssuedCalls = CallIds
       /\ \A c \in CallIds : calls[c].sent

C14_Step ==
  /\ \A c \in CallIds :
       /\ Issued(c) => Issued(c)' /\ Request(calls'[c]) = Request(calls[c])
       /\ calls[c].st \in {"ok", "err"} => calls'[c] = calls[c]
  /\ (\E c \in CallIds : calls[c].st = "err") => IssuedCalls' = IssuedCalls

\* C14: a run makes each of its four calls (planning, worker A, worker B,
\* synthesis) at most once: a call that has been made is never made again
\* with another request, a call that has returned or failed is never
\* changed, and after a call has failed no further call is made; the two
\* worker calls are made together or not at all; a run that is done has
\* made all four and sent their requests.
C14_AtMostFourCalls == []C14_Calls /\ [][C14_Step]_vars

C14_Witness ==
  /\ pc = "done"
  /\ Cardinality(IssuedCalls) = Cardinality(CallIds)
  /\ orchestratorResponse = Fenced(PlanJson(StrLit(<<"x">>), StrLit(<<"y">>)))

NonEmptyString(v) == v.t = "str" /\ v.s # EmptyStr

\* The value of the planning call's reply, after fence stripping.
ParsedReply == JSONparse(cleanJson(orchestratorResponse))

\* Both tasks of the parsed reply are non-empty strings.
StringTasks ==
  /\ NonEmptyString(GetProp(ParsedReply.val, <<"taskA">>))
  /\ NonEmptyString(GetProp(ParsedReply.val, <<"taskB">>))

\* C15 as stated: when the planner reply parses to a value whose taskA or
\* taskB is not a non-empty string (absent, empty, or a number, boolean,
\* array or object), the run fails with a planning error and no worker call
\* is made; when both are non-empty strings the plan is not rejected,
\* whatever other members the value has.
C15_OnlyStringTasks ==
  (calls["plan"].st = "ok" /\ pc # "L60" /\ ParsedReply.ok) =>
    IF StringTasks
    THEN ~(err.thrown /\ err.message \in PlanningErrors)
    ELSE /\ err.thrown
         /\ err.message \in PlanningErrors
         /\ ~Issued("workerA") /\ ~Issued("workerB")

\* The messages of a call that failed on a network error or on a non-OK
\* response: the vendor's message, else 'HTTP <status>'.
NetworkOrHttpErrors ==
  {<<"Failed to fetch">>, <<"API key not valid">>, <<"HTTP ", "500">>, <<"HTTP ", "503">>}

\* The message of a call whose OK response had a body that is not JSON.
BodyErrors == {<<"Unexpected end of JSON input">>}

\* A pending call that gets an OK reply without text returns ''.
NoTextReturnsEmpty ==
  \A c \in CallIds : calls[c].st = "pending" =>
    fetchSettled(calls[c], OkNoText) = [calls[c] EXCEPT !.st = "ok", !.out = EmptyStr]

\* A reply without text does not fail the run: after such a synthesis
\* reply the run finalizes, after such worker replies it synthesizes.
NoTextGoesOn ==
  /\ (calls["synth"].st = "ok" /\ calls["synth"].out = EmptyStr) =>
       /\ finalResponse = EmptyStr
       /\ pc \in {"L120", "L124", "finally", "done"}
            \/ (err.thrown /\ err.message = <<"appendMessage failed">>)
       /\ pc = "done" =>
            messages[Len(messages)] =
              [role |-> "assistant", content |-> EmptyStr, imageBase64 |-> NoImage]
  /\ (\A w \in Workers : calls[w].st = "ok") =>
       \/ pc = "L89" /\ ~err.thrown
       \/ Issued("synth")

\* C16 as stated: a call that sent its request fails only on a network
\* error or a non-OK response, with the vendor message or 'HTTP <status>',
\* and never for a reply without text, which gives ''; a run whose
\* synthesis reply has no text ends Done with an assistant turn of empty
\* content and worker replies without text do not fail the run.
C16_AsStated ==
  /\ \A c \in CallIds :
       (calls[c].sent /\ calls[c].st = "err") => calls[c].out \in NetworkOrHttpErrors
  /\ NoTextReturnsEmpty
  /\ NoTextGoesOn

\* C16 amended: a call that sent its request fails only on a network
\* error, on a non-OK response (vendor message, else 'HTTP <status>') or on
\* an OK response whose body is not JSON; an OK reply without text gives
\* '', after which a synthesis reply without text leads to finalization and
\* a done run has an assistant turn of empty content, and worker replies
\* without text lead to the synthesis call.
C16_NoTextIsEmptyString ==
  /\ \A c \in CallIds :
       (calls[c].sent /\ calls[c].st = "err") =>
         calls[c].out \in NetworkOrHttpErrors \cup BodyErrors
  /\ NoTextReturnsEmpty
  /\ NoTextGoesOn

C16_Witness ==
  /\ pc = "done"
  /\ calls["synth"].out = EmptyStr
  /\ calls["workerA"].out = EmptyStr
  /\ calls["workerB"].out = <<"A-out">>
  /\ messages[Len(messages)].role = "assistant"
  /\ messages[Len(messages)].content = EmptyStr

\* The first n turns of the chat, as role and content.
PriorTurns(n) == [i \in 1..n |-> [role |-> messages[i].role, content |-> messages[i].content]]

\* The request c carries the n turns of history h after the two
\* instruction turns, and then one last turn with the text alone or with
\* the text and an image.
Carries(c, h, text) ==
  /\ Len(c.contents) = 2 + Len(h) + 1
  /\ \A i \in 1..Len(h) : c.contents[2 + i].parts = <<TextPart(h[i].content)>>
  /\ c.contents[Len(c.contents)].role = "user"
  /\ c.contents[Len(c.contents)].parts[1] = TextPart(text)

C17_Run(r) ==
  LET P == calls[r]["plan"]
      S == calls[r]["synth"]
      n == Len(history[r])
  IN /\ P.st # "none" =>
          /\ Len(messages) >= n + 1
          /\ messages[n + 1] = userMsg[r]
          /\ userMsg[r].content = userText[r]
          /\ history[r] = PriorTurns(n)
          /\ P.history = history[r]
          /\ P.newUserText = JStr(userText[r])
          /\ P.sent => Carries(P, history[r], userText[r])
     /\ S.st # "none" =>
          /\ S.history = P.history
          /\ S.newUserText = JStr(combined(resultA[r], resultB[r]))
          /\ S.newUserText \notin {JStr(userText[r]), GetProp(tasks[r], <<"taskA">>),
                                   GetProp(tasks[r], <<"taskB">>)}
          /\ S.sent =>
               /\ Carries(S, history[r], combined(resultA[r], resultB[r]))
               /\ Len(S.contents[Len(S.contents)].parts) = 1

\* C17: in every invocation, overlapping ones included, the planning call
\* and the synthesis call get the same history, which is the turns of the
\* chat before the triggering user turn, in order; the request of the
\* planning call carries them and then the triggering turn's text as its
\* last turn; the request of the synthesis call carries them and then the
\* combined worker output as its last turn, which is neither the user text
\* nor a task; turns appended to the chat after the triggering turn are in
\* neither request.
C17_SameHistory == \A r \in Runs : C17_Run(r)

\* The first invocation has sent its synthesis request after the second
\* one appended its user turn to the chat.
C17_Witness ==
  /\ calls[1]["synth"].sent
  /\ pc[1] = "awaitSynth"
  /\ Len(history[1]) = 2
  /\ Len(messages) >= 4
  /\ messages[4] = userMsg[2]
  /\ calls[2]["plan"].sent
  /\ Len(calls[1]["synth"].contents) = 5
  /\ Len(calls[2]["plan"].contents) = 6

\* The status lines of a run, in the order of its phases.
StatusLines ==
  << <<"> Initializing S.I.L.K. Agent Mode...">>,
     <<"> Orchestrator analyzing request...">>,
     <<"> Orchestrator generated tasks. Dispatching to parallel workers...">>,
     <<"> Workers A and B have completed execution. Synthesizing final output...">> >>

\* The place of a text in that order; an error text comes after them all.
Rank(text) ==
  IF \E i \in 1..Len(StatusLines) : StatusLines[i] = text
  THEN CHOOSE i \in 1..Len(StatusLines) : StatusLines[i] = text
  ELSE Len(StatusLines) + 1

\* The indicator is there and shows status line i, not as an error.
Shows(i) == IndicatorPresent /\ Indicator.text = StatusLines[i] /\ ~Indicator.isError

C18_Shown ==
  /\ Cardinality({i \in 1..Len(dom) : dom[i].id = NewTerminalId}) <= 1
  /\ Issued("plan") => terminalId = NewTerminalId
  /\ pc = "L38" => Shows(1)
  /\ pc \in {"awaitPlan", "L60", "L73"} => Shows(2)
  /\ pc \in {"awaitWorkers", "L89"} => Shows(3)
  /\ pc \in {"awaitSynth", "L120"} => Shows(4)
  /\ \E i \in 1..Len(dom) :
       dom[i] = Bubble(OldTerminalId, <<"> Error: ", "HTTP ", "500">>, TRUE)

C18_Step ==
  /\ (~IndicatorPresent /\ IndicatorPresent') => pc = "L31"
  /\ terminalId # 0 => terminalId' = terminalId
  /\ (IndicatorPresent /\ IndicatorPresent') =>
       Rank(Indicator'.text) >= Rank(Indicator.text)
  /\ (IndicatorPresent /\ Indicator.isError) => dom' = dom

\* C18: the run's status indicator is created once, in the setup, before
\* the planning call is made; it shows the analyzing line while the run
\* awaits the planning call, the dispatching line while it awaits the
\* worker calls and the synthesizing line while it awaits the synthesis
\* call; its text never goes back to an earlier line; once it shows an
\* error the run changes no bubble any more; a bubble left by an earlier
\* run is never touched.
C18_StatusAdvances == []C18_Shown /\ [][C18_Step]_vars

C18_Witness ==
  /\ pc = "failed"
  /\ calls["synth"].st = "err"
  /\ IndicatorPresent
  /\ Indicator.isError
  /\ Indicator.text = <<"> Error: ", "API key not valid">>

\* The invocation has gone past the test of its text (line 10).
PastGuard == pc \notin {"idle", "returned"}

C19_Untouched ==
  /\ PastGuard => userText # EmptyStr
  /\ pc \in {"idle", "returned"} =>
       /\ messages \in InitialChats
       /\ ~sendBtnDisabled /\ ~isStreaming
       /\ dom = <<Bubble(OldTerminalId, <<"> Error: ", "HTTP ", "500">>, TRUE)>>
       /\ toasts = <<>>
       /\ terminalId = 0
       /\ \A c \in CallIds : calls[c] = NoCall

C19_Return ==
  (pc = "idle" /\ pc' = "returned") =>
    /\ messages' = messages
    /\ pendingImage' = pendingImage
    /\ sendBtnDisabled' = sendBtnDisabled /\ isStreaming' = isStreaming
    /\ dom' = dom /\ toasts' = toasts
    /\ calls' = calls

\* C19: an invocation with the empty text returns without any effect: the
\* chat, the pending image, the submit control, the in-progress flag, the
\* bubbles and the toasts are as before, no indicator is created and no call
\* is made, with or without a pending image; only an invocation with a
\* non-empty text goes further.
C19_EmptyTextNoEffect == []C19_Untouched /\ [][C19_Return]_vars

C19_Witness ==
  /\ pc = "returned"
  /\ pendingImage \in Images
  /\ Len(messages) = MaxHistory
  /\ apiKey # ""
====
